---- MODULE Spec2Model ----
(***************************************************************************)
(* A model of the neolink v4l bridge:                                      *)
(*   - camera_loop / camera_main / do_camera_management (src/v4l/mod.rs):  *)
(*     the connection supervisor with its exponential backoff;             *)
(*   - V4lOutputs::write and V4lDevice::run (src/v4l/v4lt.rs): the channel *)
(*     between the camera session and the video device, the bootstrap      *)
(*     loop that learns the format, and the loop that fills the buffers.   *)
(* Durations are whole seconds.                                            *)
(***************************************************************************)
EXTENDS Integers, Sequences, FiniteSets, TLC

\* ------------------------------------------------------------ bounds
\* Number of connection attempts one run of camera_loop is followed for.
MaxAttempts == 6

\* ------------------------------------------------------------ supervisor state
VARIABLES
    manage,           \* camera_loop's `manage` argument
    pc,               \* position of camera_loop / camera_main
    current_backoff,  \* camera_loop's current_backoff, in seconds
    connected,        \* camera_main's `connected`
    login_fail,       \* camera_main's `login_fail`
    err,              \* the error camera_main returned (CameraErr.err)
    result,           \* what camera_loop returned ("none" while it runs)
    attempts,         \* history: calls of camera_main so far
    delays,           \* history: the durations slept, in order
    conns,            \* history: CameraErr.connected of each failure slept on
    mgmtFail,         \* history: a camera-management step failed in this attempt
    streamStarted,    \* history: start_video was called in this attempt
    loginRejected     \* history: login returned Error::AuthFailed

supVars == <<manage, pc, current_backoff, connected, login_fail, err, result,
             attempts, delays, conns, mgmtFail, streamStarted, loginRejected>>

min_backoff == 1
max_backoff == 15

Min(a, b) == IF a <= b THEN a ELSE b

RECURSIVE Pow2(_)
Pow2(n) == IF n <= 0 THEN 1 ELSE 2 * Pow2(n - 1)

\* Errors start_video can return: the session dropped, the camera signalled an
\* authentication failure while streaming, or V4lOutputs::write failed.
StreamErrors == {"SessionDropped", "AuthFailed", "V4lDeviceDropped"}

\* mod.rs 107-109: a failure of an attempt that had logged in resets the backoff.
ResetBackoffNever(cb, conn) == cb
ResetBackoffToZero(cb, conn) == IF conn THEN 0 ELSE cb
ResetBackoff(cb, conn) == IF conn THEN min_backoff ELSE cb

\* mod.rs 110-123: an authentication failure returns, anything else sleeps.
AfterClassifyAlwaysRetry(lf) == "sleep"
AfterClassifyNeverRetry(lf) == "returned"
AfterClassify(lf) == IF lf THEN "returned" ELSE "sleep"

\* mod.rs 126: doubling, capped.
NextBackoffUncapped(cb) == cb * 2
NextBackoff(cb) == Min(max_backoff, cb * 2)

SupInit ==
    /\ manage \in BOOLEAN
    /\ pc = "connect"
    /\ current_backoff = min_backoff
    /\ connected = FALSE
    /\ login_fail = FALSE
    /\ err = "none"
    /\ result = "none"
    /\ attempts = 0
    /\ delays = <<>>
    /\ conns = <<>>
    /\ mgmtFail = FALSE
    /\ streamStarted = FALSE
    /\ loginRejected = FALSE

\* camera_main returns Err(e): the closure's `?` leaves with the flags as they are.
Fail(e) ==
    /\ err' = e
    /\ pc' = "classify"

\* mod.rs 105, 142-154: camera_loop calls camera_main, which connects.
Connect ==
    /\ pc = "connect"
    /\ attempts < MaxAttempts
    /\ attempts' = attempts + 1
    /\ connected' = FALSE
    /\ login_fail' = FALSE
    /\ mgmtFail' = FALSE
    /\ streamStarted' = FALSE
    /\ \E ok \in BOOLEAN :
          IF ok THEN pc' = "login" /\ err' = err
                ELSE Fail("ConnectFailure")
    /\ UNCHANGED <<manage, current_backoff, result, delays, conns, loginRejected>>

\* mod.rs 167-181: login; AuthFailed sets login_fail; success sets connected.
Login ==
    /\ pc = "login"
    /\ \E r \in {"Ok", "AuthFailed", "LoginError"} :
          CASE r = "Ok" ->
                  /\ connected' = TRUE
                  /\ pc' = IF manage THEN "get_time" ELSE "start_video"
                  /\ UNCHANGED <<login_fail, err, loginRejected>>
            [] r = "AuthFailed" ->
                  /\ login_fail' = TRUE
                  /\ loginRejected' = TRUE
                  /\ Fail("AuthFailed")
                  /\ UNCHANGED connected
            [] OTHER ->
                  /\ Fail("LoginError")
                  /\ UNCHANGED <<connected, login_fail, loginRejected>>
    /\ UNCHANGED <<manage, current_backoff, result, attempts, delays, conns,
                   mgmtFail, streamStarted>>

\* mod.rs 202-208: camera.get_time()?
MgmtGetTime ==
    /\ pc = "get_time"
    /\ \E r \in {"Some", "None", "Err"} :
          CASE r = "Some" -> pc' = "version" /\ UNCHANGED <<err, mgmtFail>>
            [] r = "None" -> pc' = "set_time" /\ UNCHANGED <<err, mgmtFail>>
            [] OTHER -> mgmtFail' = TRUE /\ Fail("GetTimeError")
    /\ UNCHANGED <<manage, current_backoff, connected, login_fail, result, attempts,
                   delays, conns, streamStarted, loginRejected>>

\* mod.rs 209-219: camera.set_time(new_time)?
MgmtSetTime ==
    /\ pc = "set_time"
    /\ \E ok \in BOOLEAN :
          IF ok THEN pc' = "get_time_again" /\ UNCHANGED <<err, mgmtFail>>
                ELSE mgmtFail' = TRUE /\ Fail("SetTimeError")
    /\ UNCHANGED <<manage, current_backoff, connected, login_fail, result, attempts,
                   delays, conns, streamStarted, loginRejected>>

\* mod.rs 220-229: camera.get_time()? after setting; Some and None both go on.
MgmtGetTimeAgain ==
    /\ pc = "get_time_again"
    /\ \E r \in {"Some", "None", "Err"} :
          IF r = "Err" THEN mgmtFail' = TRUE /\ Fail("GetTimeError")
                       ELSE pc' = "version" /\ UNCHANGED <<err, mgmtFail>>
    /\ UNCHANGED <<manage, current_backoff, connected, login_fail, result, attempts,
                   delays, conns, streamStarted, loginRejected>>

\* mod.rs 231-248: camera.version(); an error is logged and management returns Ok.
MgmtVersion ==
    /\ pc = "version"
    /\ \E ok \in BOOLEAN : mgmtFail' = (mgmtFail \/ ~ok)
    /\ pc' = "start_video"
    /\ UNCHANGED <<manage, current_backoff, connected, login_fail, err, result,
                   attempts, delays, conns, streamStarted, loginRejected>>

\* mod.rs 183-193: camera.start_video(outputs, stream_name) is called.
StartVideo ==
    /\ pc = "start_video"
    /\ streamStarted' = TRUE
    /\ pc' = "streaming"
    /\ UNCHANGED <<manage, current_backoff, connected, login_fail, err, result,
                   attempts, delays, conns, mgmtFail, loginRejected>>

\* mod.rs 193-198: start_video returns an error (it never returns Ok).
StreamError ==
    /\ pc = "streaming"
    /\ \E e \in StreamErrors : Fail(e)
    /\ UNCHANGED <<manage, current_backoff, connected, login_fail, result, attempts,
                   delays, conns, mgmtFail, streamStarted, loginRejected>>

\* mod.rs 105-123: the error is classified.
Classify ==
    /\ pc = "classify"
    /\ current_backoff' = ResetBackoff(current_backoff, connected)
    /\ pc' = AfterClassify(login_fail)
    /\ result' = IF AfterClassify(login_fail) = "returned" THEN err ELSE result
    /\ UNCHANGED <<manage, connected, login_fail, err, attempts, delays, conns,
                   mgmtFail, streamStarted, loginRejected>>

\* A sleep that never ends.
SleepHang ==
    /\ pc = "sleep"
    /\ UNCHANGED supVars

\* mod.rs 125-126: sleep current_backoff, then double it up to max_backoff.
Sleep ==
    /\ pc = "sleep"
    /\ delays' = Append(delays, current_backoff)
    /\ conns' = Append(conns, connected)
    /\ current_backoff' = NextBackoff(current_backoff)
    /\ pc' = "connect"
    /\ UNCHANGED <<manage, connected, login_fail, err, result, attempts,
                   mgmtFail, streamStarted, loginRejected>>

SupNext ==
    \/ Connect
    \/ Login
    \/ MgmtGetTime
    \/ MgmtSetTime
    \/ MgmtGetTimeAgain
    \/ MgmtVersion
    \/ StartVideo
    \/ StreamError
    \/ Classify
    \/ Sleep

\* ------------------------------------------------------------ device state
VARIABLES
    chan,             \* the crossbeam channel between V4lOutputs and V4lDevice
    senderAlive,      \* the V4lOutputs (Sender) still exists
    receiverAlive,    \* the V4lDevice (Receiver) still exists
    writeResult,      \* what the last V4lOutputs::write returned
    video_width,      \* V4lDevice.video_width  (<<>> is None, <<x>> is Some(x))
    video_height,     \* V4lDevice.video_height
    video_fps,        \* V4lDevice.video_fps
    video_format,     \* V4lDevice.video_format
    devFormat,        \* the format the device was last configured with
    applies,          \* number of Output::set_format calls issued to the device
    packets,          \* run's `packets`
    dpc,              \* position of V4lDevice::run
    buf,              \* the bytes of the buffer OutputStream::next hands out
    lastRecv,         \* history: the unit run received last and what became of it
    lastWrite,        \* history: the last frame write
    prefix,           \* history: the units received before the first frame unit
    lastInfo,         \* history: (width, height, fps) of the last descriptor unit
    tracked,          \* the session is one whose units are numbered as sent
    chanSeq,          \* history: the numbers of the units in the channel
    sendNo,           \* history: how many units a tracked session has sent
    writeSeqs         \* history: the numbers of the frames written, in order

devVars == <<chan, senderAlive, receiverAlive, writeResult, video_width,
             video_height, video_fps, video_format, devFormat, applies, packets,
             dpc, buf, lastRecv, lastWrite, prefix, lastInfo, tracked,
             chanSeq, sendNo, writeSeqs>>

vars == <<supVars, devVars>>

\* Capacity of the channel followed by the model.
MaxQueue == 1
\* Number of units a tracked session sends.
MaxSent == 5
\* Size in bytes of the buffer the device hands out for one frame.
BufCap == 2
\* Longest frame payload the session yields: one byte more than a buffer holds.
MaxLen == BufCap + 1

\* Option<T>: None is the empty sequence, Some(x) the sequence of x.
None == <<>>
Some(x) == <<x>>
IsSome(o) == o # <<>>
Unwrap(o) == o[1]

\* v4lt.rs 33-38: enum StreamFormat.
StreamFormats == {"H264", "H265"}

\* (width, height, fps) as the camera reports them in BcMedia::InfoV1 / InfoV2.
Geometries == {<<1920, 1080, 15>>, <<640, 480, 30>>}

\* The payload lengths the session yields: a short frame, one that fills the
\* buffer, and one a byte longer than the buffer.
PayloadLens == {1, BufCap, MaxLen}

\* The payload of length n: byte i of it is 16 * n + i, never 0.
Data(n) == [i \in 1..n |-> 16 * n + i]

\* BcMedia as V4lDevice::run matches on it (v4lt.rs 81-107, 115-145).
FrameUnits ==
    { [kind |-> k, video_type |-> c, data |-> Data(n),
       video_width |-> 0, video_height |-> 0, fps |-> 0] :
        k \in {"Iframe", "Pframe"}, c \in StreamFormats, n \in PayloadLens }

InfoUnits ==
    { [kind |-> k, video_type |-> "none", data |-> <<>>,
       video_width |-> g[1], video_height |-> g[2], fps |-> g[3]] :
        k \in {"InfoV1", "InfoV2"}, g \in Geometries }

OtherUnits ==
    { [kind |-> "Other", video_type |-> "none", data |-> <<>>,
       video_width |-> 0, video_height |-> 0, fps |-> 0] }

BcMedia == FrameUnits \cup InfoUnits \cup OtherUnits

IsFrame(m) == m.kind \in {"Iframe", "Pframe"}
IsInfo(m) == m.kind \in {"InfoV1", "InfoV2"}

\* The units of a tracked session: one descriptor, a keyframe and a delta
\* frame that fit the buffer, and a unit of another kind.
TrackedUnits ==
    { m \in BcMedia :
        /\ IsFrame(m) => (m.video_type = "H264" /\ Len(m.data) = 1)
        /\ IsInfo(m) => (m.kind = "InfoV1" /\ m.video_width = 640) }

\* The units the session can send, and the channel capacity it is followed
\* with: a tracked session is followed with one more unit in flight.
Session == IF tracked THEN TrackedUnits ELSE BcMedia
Capacity == IF tracked THEN MaxQueue + 1 ELSE MaxQueue

\* v4lt.rs 48-49: Sender::send puts the unit behind those already in the channel.
EnqueueFront(q, x) == <<x>> \o q
Enqueue(q, x) == Append(q, x)

\* What the device answers to Output::set_format and Output::set_params.
DeviceAnswers == {"ok", "reject_format", "reject_params"}

\* v4lt.rs 180-184: the fourcc of a StreamFormat.
FourCC(format) == IF format = "H264" THEN "AVC1" ELSE "HEVC"

\* The Format State and the device as one value, threaded through the setters.
FormatState ==
    [w |-> video_width, h |-> video_height, fps |-> video_fps,
     fmt |-> video_format, dev |-> devFormat, applies |-> applies,
     panicked |-> FALSE]

\* apply_format without the check of video_fps (a frame rate of 0 is sent).
apply_format_unchecked_fps(s, answer) ==
    IF s.panicked \/ ~IsSome(s.fmt) THEN s
    ELSE IF IsSome(s.w) /\ IsSome(s.h)
    THEN LET old == IF IsSome(s.dev) THEN Unwrap(s.dev).fps ELSE 0
             new == IF IsSome(s.fps) THEN Unwrap(s.fps) ELSE 0
             fmt == [width |-> Unwrap(s.w), height |-> Unwrap(s.h),
                     fourcc |-> FourCC(Unwrap(s.fmt)),
                     fps |-> IF answer = "ok" THEN new ELSE old]
         IN  [s EXCEPT !.applies = s.applies + 1,
                       !.dev = IF answer = "reject_format" THEN s.dev ELSE Some(fmt),
                       !.panicked = (answer # "ok")]
    ELSE s

\* v4lt.rs 179-205: apply_format. Nothing is issued unless all four are Some;
\* both device calls are unwrapped, so a rejection panics.
apply_format(s, answer) ==
    IF s.panicked \/ ~IsSome(s.fmt) THEN s
    ELSE IF IsSome(s.w) /\ IsSome(s.h) /\ IsSome(s.fps)
    THEN LET old == IF IsSome(s.dev) THEN Unwrap(s.dev).fps ELSE 0
             fmt == [width |-> Unwrap(s.w), height |-> Unwrap(s.h),
                     fourcc |-> FourCC(Unwrap(s.fmt)),
                     fps |-> IF answer = "ok" THEN Unwrap(s.fps) ELSE old]
         IN  [s EXCEPT !.applies = s.applies + 1,
                       !.dev = IF answer = "reject_format" THEN s.dev ELSE Some(fmt),
                       !.panicked = (answer # "ok")]
    ELSE s

\* v4lt.rs 154-164: set_format.
set_format(s, format, answer) ==
    IF s.panicked THEN s
    ELSE IF IsSome(format) /\ format # s.fmt
    THEN apply_format([s EXCEPT !.fmt = format], answer)
    ELSE s

\* v4lt.rs 166-171: set_resolution.
set_resolution(s, width, height, answer) ==
    IF s.panicked THEN s
    ELSE apply_format([s EXCEPT !.w = Some(width), !.h = Some(height)], answer)

\* v4lt.rs 173-177: set_fps.
set_fps(s, fps, answer) ==
    IF s.panicked THEN s
    ELSE apply_format([s EXCEPT !.fps = Some(fps)], answer)

\* v4lt.rs 81-107: the match of the bootstrap loop.
BootMatch(s, media, a1, a2) ==
    IF IsFrame(media) THEN set_format(s, Some(media.video_type), a1)
    ELSE IF IsInfo(media)
    THEN set_fps(set_resolution(s, media.video_width, media.video_height, a1),
                 media.fps, a2)
    ELSE s

\* v4lt.rs 74-78: the condition of the bootstrap loop.
BootCond ==
    /\ \/ ~IsSome(video_width)
       \/ ~IsSome(video_height)
       \/ ~IsSome(video_fps)
       \/ ~IsSome(video_format)
    /\ packets <= 10

AllKnown ==
    /\ IsSome(video_width)
    /\ IsSome(video_height)
    /\ IsSome(video_fps)
    /\ IsSome(video_format)

\* v4lt.rs 123-125: buf_out[0..len].copy_from_slice(data).
CopyFromSlice(b, data) ==
    [i \in 1..Len(b) |-> IF i <= Len(data) THEN data[i] ELSE b[i]]

\* v4lt.rs 126-127: only `field` is set on the metadata; bytesused is left as
\* OutputStream::next handed it out.
SetMeta(meta, data) == [meta EXCEPT !.field = 0]

NoRecv == [frame |-> FALSE, phase |-> "none", delivered |-> 0]
NoWrite == <<>>

\* v4lt.rs 55-66: from_device; apply_format returns at once, all being None.
DevStart(t) ==
    /\ tracked = t
    /\ chanSeq = <<>>
    /\ sendNo = 0
    /\ writeSeqs = <<>>
    /\ chan = <<>>
    /\ senderAlive = TRUE
    /\ receiverAlive = TRUE
    /\ writeResult = "none"
    /\ video_width = None
    /\ video_height = None
    /\ video_fps = None
    /\ video_format = None
    /\ devFormat = None
    /\ applies = 0
    /\ packets = 0
    /\ dpc = "boot"
    /\ buf = [i \in 1..BufCap |-> 0]
    /\ lastRecv = NoRecv
    /\ lastWrite = NoWrite
    /\ prefix = "empty"
    /\ lastInfo = None

DevInit == DevStart(FALSE)

\* v4lt.rs 46-52: V4lOutputs::write; send fails once the receiver is gone.
Write ==
    /\ senderAlive
    /\ tracked => sendNo < MaxSent
    /\ \E media \in Session :
          IF receiverAlive
          THEN /\ Len(chan) < Capacity
               /\ chan' = Enqueue(chan, media)
               /\ chanSeq' = Enqueue(chanSeq, IF tracked THEN sendNo + 1 ELSE 0)
               /\ sendNo' = IF tracked THEN sendNo + 1 ELSE 0
               /\ writeResult' = "Ok"
          ELSE /\ chan' = chan
               /\ chanSeq' = chanSeq
               /\ sendNo' = sendNo
               /\ writeResult' = "V4l Device dropped"
    /\ UNCHANGED <<senderAlive, receiverAlive, video_width, video_height,
                   video_fps, video_format, devFormat, applies, packets, dpc,
                   buf, lastRecv, lastWrite, prefix, lastInfo, tracked,
                   writeSeqs>>

\* mod.rs 63-67: `outputs` is moved into the spawned closure and dropped when
\* camera_loop returns.
DropOutputs ==
    /\ senderAlive
    /\ senderAlive' = FALSE
    /\ UNCHANGED <<chan, receiverAlive, writeResult, video_width, video_height,
                   video_fps, video_format, devFormat, applies, packets, dpc,
                   buf, lastRecv, lastWrite, prefix, lastInfo, tracked,
                   chanSeq, sendNo, writeSeqs>>

\* History of the units seen before the first frame unit: "empty" (none yet),
\* "desc" (descriptor units only), "mixed" (some other unit too), and once the
\* first frame unit has come "desc_then_frame" or "other_then_frame".
PrefixAfter(media) ==
    IF prefix \in {"desc_then_frame", "other_then_frame"} THEN prefix
    ELSE IF IsFrame(media)
         THEN (IF prefix = "desc" THEN "desc_then_frame" ELSE "other_then_frame")
    ELSE IF IsInfo(media)
         THEN (IF prefix = "mixed" THEN "mixed" ELSE "desc")
    ELSE "mixed"

\* History of the descriptor units: what the last one received reported.
InfoAfter(media) ==
    IF IsInfo(media)
    THEN Some(<<media.video_width, media.video_height, media.fps>>)
    ELSE lastInfo

\* v4lt.rs 74-109: one iteration of the bootstrap loop.
BootRecv ==
    /\ dpc = "boot"
    /\ receiverAlive
    /\ BootCond
    /\ chan # <<>>
    /\ \E a1 \in DeviceAnswers, a2 \in DeviceAnswers :
          LET media == Head(chan)
              s == BootMatch(FormatState, media, a1, a2)
          IN  /\ video_width' = s.w
              /\ video_height' = s.h
              /\ video_fps' = s.fps
              /\ video_format' = s.fmt
              /\ devFormat' = s.dev
              /\ applies' = s.applies
              /\ dpc' = IF s.panicked THEN "panicked" ELSE "boot"
              /\ packets' = IF s.panicked THEN packets ELSE packets + 1
              /\ lastRecv' = [frame |-> IsFrame(media), phase |-> "boot", delivered |-> 0]
              /\ prefix' = PrefixAfter(media)
              /\ lastInfo' = InfoAfter(media)
    /\ chan' = Tail(chan)
    /\ chanSeq' = Tail(chanSeq)
    /\ UNCHANGED <<senderAlive, receiverAlive, writeResult, buf, lastWrite,
                   tracked, sendNo, writeSeqs>>

\* v4lt.rs 80, 114: recv()? on an empty channel whose sender is gone.
RecvError ==
    /\ dpc \in {"boot", "relay"}
    /\ receiverAlive
    /\ dpc = "boot" => BootCond
    /\ chan = <<>>
    /\ ~senderAlive
    /\ dpc' = "returned"
    /\ UNCHANGED <<chan, senderAlive, receiverAlive, writeResult, video_width,
                   video_height, video_fps, video_format, devFormat, applies,
                   packets, buf, lastRecv, lastWrite, prefix, lastInfo, tracked,
                   chanSeq, sendNo, writeSeqs>>

\* v4lt.rs 74-78, 110-111, 149-152: the bootstrap loop ends and the stream is
\* created, or get_stream fails and run returns the error. `packets` is a local
\* that is not read after the loop: it is forgotten once the stream exists.
GetStream ==
    /\ dpc = "boot"
    /\ receiverAlive
    /\ ~BootCond
    /\ \E ok \in BOOLEAN :
          /\ dpc' = IF ok THEN "relay" ELSE "returned"
          /\ packets' = IF ok THEN 0 ELSE packets
    /\ UNCHANGED <<chan, senderAlive, receiverAlive, writeResult, video_width,
                   video_height, video_fps, video_format, devFormat, applies,
                   buf, lastRecv, lastWrite, prefix, lastInfo, tracked,
                   chanSeq, sendNo, writeSeqs>>

\* v4lt.rs 113-146: one iteration of the loop that writes the frames.
\* OutputStream::next may fail; it hands out the buffer with the metadata the
\* device reported (bytesused 0 for a fresh buffer, or the whole buffer).
RelayRecv ==
    /\ dpc = "relay"
    /\ receiverAlive
    /\ chan # <<>>
    /\ LET media == Head(chan)
       IN  /\ chan' = Tail(chan)
           /\ chanSeq' = Tail(chanSeq)
           /\ prefix' = PrefixAfter(media)
           /\ lastInfo' = InfoAfter(media)
           /\ IF IsFrame(media)
              THEN \E got \in BOOLEAN, used \in {0, BufCap} :
                     IF ~got
                     THEN /\ dpc' = "returned"
                          /\ lastRecv' = [frame |-> IsFrame(media), phase |-> "relay", delivered |-> 0]
                          /\ UNCHANGED <<buf, lastWrite, writeSeqs>>
                     ELSE IF Len(media.data) > Len(buf)
                     THEN /\ dpc' = "panicked"
                          /\ lastRecv' = [frame |-> IsFrame(media), phase |-> "relay", delivered |-> 0]
                          /\ UNCHANGED <<buf, lastWrite, writeSeqs>>
                     ELSE /\ dpc' = "relay"
                          /\ buf' = CopyFromSlice(buf, media.data)
                          /\ writeSeqs' = IF tracked
                                           THEN Append(writeSeqs, Head(chanSeq))
                                           ELSE writeSeqs
                          /\ lastRecv' = [frame |-> IsFrame(media), phase |-> "relay", delivered |-> 1]
                          /\ lastWrite' =
                               Some([data |-> media.data,
                                     video_type |-> media.video_type,
                                     before |-> buf,
                                     meta |-> SetMeta([bytesused |-> used, field |-> 1],
                                                      media.data),
                                     known |-> AllKnown,
                                     dev |-> devFormat,
                                     applies |-> applies])
              ELSE /\ lastRecv' = [frame |-> IsFrame(media), phase |-> "relay", delivered |-> 0]
                   /\ UNCHANGED <<dpc, buf, lastWrite, writeSeqs>>
    /\ UNCHANGED <<senderAlive, receiverAlive, writeResult, video_width,
                   video_height, video_fps, video_format, devFormat, applies,
                   packets,
                   tracked, sendNo>>

\* v4lt.rs 15-22: the V4lDevice owns the Receiver; once run has ended and the
\* device is dropped, the channel is disconnected.
DropDevice ==
    /\ dpc \in {"returned", "panicked"}
    /\ receiverAlive
    /\ receiverAlive' = FALSE
    /\ chan' = <<>>
    /\ chanSeq' = <<>>
    /\ UNCHANGED <<senderAlive, writeResult, video_width, video_height,
                   video_fps, video_format, devFormat, applies, packets, dpc,
                   buf, lastRecv, lastWrite, prefix, lastInfo, tracked,
                   sendNo, writeSeqs>>

DevNext ==
    \/ Write
    \/ DropOutputs
    \/ BootRecv
    \/ RecvError
    \/ GetStream
    \/ RelayRecv
    \/ DropDevice

\* ------------------------------------------------------------ properties

\* The first failure of the run of failures without login that ends at i.
RECURSIVE RunStart(_)
RunStart(i) == IF i > 1 /\ ~conns[i - 1] THEN RunStart(i - 1) ELSE i

\* C1, as stated: after the Nth of N consecutive failures without login,
\* counted from the start of camera_loop or from the reset of the backoff, the
\* delay slept is min(min_backoff * 2^(N-1), max_backoff); three failures from
\* the start sleep 1s, 2s, 4s.
C1_DelayFromStartOrReset ==
    \A i \in 1..Len(delays) :
        ~conns[i] =>
            delays[i] = Min(min_backoff * Pow2(i - RunStart(i)), max_backoff)

\* C1, amended: min(min_backoff * 2^(N-1), max_backoff) holds for the run that
\* starts camera_loop; in a run that follows a reset the failure that reset the
\* backoff has slept min_backoff and doubled it already, and the delay after
\* the Nth failure is min(min_backoff * 2^N, max_backoff).
C1_DelayFromStart ==
    \A i \in 1..Len(delays) :
        ~conns[i] =>
            LET s == RunStart(i)
                N == i - s + 1
            IN  delays[i] = IF s = 1
                            THEN Min(min_backoff * Pow2(N - 1), max_backoff)
                            ELSE Min(min_backoff * Pow2(N), max_backoff)

\* Three failures from the start slept 1s, 2s, 4s, a later attempt logged in
\* and failed, and the failure after it has been slept on.
C1_Witness ==
    /\ Len(delays) >= 5
    /\ ~conns[1] /\ ~conns[2] /\ ~conns[3]
    /\ SubSeq(delays, 1, 3) = <<1, 2, 4>>
    /\ \E i \in 4..(Len(delays) - 1) : conns[i] /\ ~conns[i + 1]

\* C2: once login has returned AuthFailed, camera_loop is classifying the error
\* or has returned it: no sleep follows the attempt and no attempt follows it.
C2_AuthRejectedEndsLoop ==
    loginRejected =>
        /\ pc \in {"classify", "returned"}
        /\ Len(delays) = attempts - 1
        /\ pc = "returned" => result = "AuthFailed"

\* camera_loop has returned the authentication error after earlier failures,
\* one of them after a login.
C2_Witness ==
    /\ loginRejected
    /\ pc = "returned"
    /\ Len(delays) >= 2
    /\ \E i \in 1..Len(delays) : conns[i]
    /\ \E i \in 1..Len(delays) : ~conns[i]

\* C3: the delay slept after the failure of an attempt that had logged in is
\* min_backoff, whatever the backoff had grown to.
C3_ResetAfterConnected ==
    \A i \in 1..Len(delays) : conns[i] => delays[i] = min_backoff

\* An attempt that had logged in failed after the backoff had grown to 8s.
C3_Witness ==
    \E i \in 2..Len(delays) :
        /\ conns[i]
        /\ ~conns[i - 1]
        /\ delays[i - 1] = 4

\* C4: no frame is written while width, height, fps or codec is unknown.
C4_NoWriteBeforeFormatKnown ==
    lastWrite # NoWrite => Unwrap(lastWrite).known

\* C5: after a frame of payload length L is written, the metadata of the
\* buffer reports L bytes used.
C5_MetaLengthIsPayloadLength ==
    lastWrite # NoWrite =>
        Unwrap(lastWrite).meta.bytesused = Len(Unwrap(lastWrite).data)

\* C6: a frame of payload length L that got a buffer is copied to bytes [0, L)
\* of it, the bytes from L on are left as they were, and no payload length
\* makes the write abort the pipeline.
C6_ExactCopyOfEveryLength ==
    /\ lastRecv.phase = "relay" => dpc # "panicked"
    /\ lastWrite # NoWrite =>
          LET w == Unwrap(lastWrite)
              L == Len(w.data)
          IN  /\ L <= Len(buf)
              /\ \A i \in 1..Len(buf) :
                    buf[i] = IF i <= L THEN w.data[i] ELSE w.before[i]

\* C7: an H265 frame is never written while the device is configured for
\* H264: the format is applied again with the HEVC fourcc first.
C7_CodecChangeReapplied ==
    (lastWrite # NoWrite
        /\ Unwrap(lastWrite).video_type = "H265"
        /\ IsSome(Unwrap(lastWrite).dev))
    => Unwrap(Unwrap(lastWrite).dev).fourcc = "HEVC"

\* C8: while run goes on, the frame unit it received last has been written to
\* the sink, in one write.
C8_EveryFrameDelivered ==
    (lastRecv.frame /\ dpc \in {"boot", "relay"}) => lastRecv.delivered = 1

\* C9: when only descriptor units came before the first frame unit, the device
\* has been configured exactly once by the time a frame is written.
C9_FormatSetOnceBeforeFirstWrite ==
    (prefix = "desc_then_frame" /\ lastWrite # NoWrite) =>
        /\ Unwrap(lastWrite).applies = 1
        /\ applies = 1

\* C10: an attempt in which a camera-management step failed does not fail
\* before start_video has been called on its session.
C10_ManagementNeverAborts ==
    (mgmtFail /\ pc \in {"classify", "sleep", "returned"}) => streamStarted

\* C11: the output stream is created only when width, height, fps and codec
\* are all known: a bootstrap that runs out of budget returns an error.
C11_NoStreamAfterExhaustedBootstrap ==
    dpc = "relay" => AllKnown

\* C13: once start_video has failed because the video device is gone, the
\* supervisor is classifying that error or has returned it: it does not retry.
C13_DeviceDroppedEndsLoop ==
    err = "V4lDeviceDropped" => pc \in {"classify", "returned"}

\* C13, amended: a failure of start_video because the video device is gone is
\* retried like every error that is no authentication failure at login:
\* camera_loop does not return it, and sleeps min_backoff before the retry.
C13_DeviceDroppedIsRetried ==
    err = "V4lDeviceDropped" =>
        /\ pc # "returned"
        /\ result = "none"
        /\ pc = "sleep" => current_backoff = min_backoff

\* A new attempt is under way after the device-dropped failure and its sleep
\* of min_backoff, the backoff having grown to 4s before.
C13_Witness ==
    /\ err = "V4lDeviceDropped"
    /\ pc = "login"
    /\ Len(delays) >= 3
    /\ delays[Len(delays) - 1] = 2
    /\ delays[Len(delays)] = min_backoff

\* C14: a device that rejects the format never makes the pipeline abort by a
\* panic: the bootstrap, which applies the format, ends with an error value.
C14_RejectedFormatIsReturned ==
    lastRecv.phase = "boot" => dpc # "panicked"

\* C15: an authentication failure returned by start_video ends camera_loop:
\* no sleep and no further attempt follow it.
C15_StreamAuthFailureEndsLoop ==
    (err = "AuthFailed" /\ streamStarted) => pc \in {"classify", "returned"}

\* C16: a frame is written only while the configured width, height and fps
\* are those of the last descriptor unit received: a descriptor that differs
\* from the committed format has been applied before the write.
C16_GeometryChangeReapplied ==
    (lastRecv.delivered = 1 /\ IsSome(devFormat) /\ IsSome(lastInfo)) =>
        LET d == Unwrap(devFormat)
        IN  <<d.width, d.height, d.fps>> = Unwrap(lastInfo)

\* C18: the bootstrap loop consumes at most 10 media units.
C18_BootstrapConsumesAtMostTen ==
    packets <= 10

\* C19: current_backoff stays within [min_backoff, max_backoff].
C19_BackoffInRange ==
    min_backoff <= current_backoff /\ current_backoff <= max_backoff

\* The backoff has reached max_backoff after failures of both kinds.
C19_Witness ==
    /\ current_backoff = max_backoff
    /\ \E i \in 1..Len(conns) : conns[i]

\* C20: the device has been sent a format only if video_width, video_height,
\* video_fps and video_format are all Some; while one of them is None,
\* apply_format issues no device call and leaves the Format State as it is,
\* whatever the device would answer.
C20_ApplyOnlyWhenAllSome ==
    /\ (applies > 0 \/ IsSome(devFormat)) => AllKnown
    /\ ~AllKnown =>
          \A a \in DeviceAnswers : apply_format(FormatState, a) = FormatState

\* The bootstrap has issued the format, all four fields being known.
C20_Witness ==
    /\ applies = 1
    /\ IsSome(devFormat)
    /\ AllKnown
    /\ lastRecv.phase = "boot"

\* The supervisor alone, the device untouched.
SupStep ==
    \/ Connect /\ UNCHANGED devVars
    \/ Login /\ UNCHANGED devVars
    \/ MgmtGetTime /\ UNCHANGED devVars
    \/ MgmtSetTime /\ UNCHANGED devVars
    \/ MgmtGetTimeAgain /\ UNCHANGED devVars
    \/ MgmtVersion /\ UNCHANGED devVars
    \/ StartVideo /\ UNCHANGED devVars
    \/ StreamError /\ UNCHANGED devVars
    \/ Classify /\ UNCHANGED devVars
    \/ Sleep /\ UNCHANGED devVars
SupSpecInit == SupInit /\ DevInit
SpecSup == SupSpecInit /\ [][SupStep]_vars

\* camera_loop is one sequential thread: once camera_main has returned, the
\* classification, the sleep and the next call of camera_main follow.
SupFairness ==
    /\ WF_vars(Classify /\ UNCHANGED devVars)
    /\ WF_vars(Sleep /\ UNCHANGED devVars)
    /\ WF_vars(Connect /\ UNCHANGED devVars)
SpecSupFair == SupSpecInit /\ [][SupStep]_vars /\ SupFairness

\* C12: camera_loop returns only with the authentication failure of a login,
\* and after the nth failed attempt with any other error attempt n + 1 is
\* started, for every n the run is followed for.
C12_RetriesWithoutLimit ==
    /\ [](pc = "returned" => (loginRejected /\ result = "AuthFailed"))
    /\ \A n \in 1..(MaxAttempts - 1) :
          (pc = "classify" /\ ~login_fail /\ attempts = n) ~> (attempts = n + 1)

\* A further attempt is under way after three sleeps, the last failure having
\* come from start_video.
C12_Witness ==
    /\ pc = "login"
    /\ Len(delays) >= 3
    /\ err \in StreamErrors

\* The channel and the device alone, under one supervisor that does not move.
DevStep ==
    \/ Write /\ UNCHANGED supVars
    \/ DropOutputs /\ UNCHANGED supVars
    \/ BootRecv /\ UNCHANGED supVars
    \/ RecvError /\ UNCHANGED supVars
    \/ GetStream /\ UNCHANGED supVars
    \/ RelayRecv /\ UNCHANGED supVars
    \/ DropDevice /\ UNCHANGED supVars
DevSpecInit == SupInit /\ manage = TRUE /\ DevInit
SpecDev == DevSpecInit /\ [][DevStep]_vars

\* The same, for a tracked session: its units are numbered as they are sent.
TrackedSpecInit == SupInit /\ manage = TRUE /\ DevStart(TRUE)
SpecTracked == TrackedSpecInit /\ [][DevStep]_vars

\* C17: the frames are written in the order in which V4lOutputs::write was
\* given them: the numbers of the frames written so far increase.
C17_FramesWrittenInSendOrder ==
    \A i \in 1..(Len(writeSeqs) - 1) : writeSeqs[i] < writeSeqs[i + 1]

\* Two frames have been written while the session went on sending.
C17_Witness ==
    /\ Len(writeSeqs) >= 2
    /\ Len(chan) >= 1

====
